---- MODULE Spec2Model ----
(***************************************************************************)
(* Model of the regolith build orchestrator:                               *)
(*   - the run loops RecycledRunProfile / RunProfile and the filter loop   *)
(*     WatchProfileImpl (specification Spec),                              *)
(*   - RemoteFilter.subfilterCollection (specification SpecSub),           *)
(*   - the dependency installer of remote_filters.go (SpecInstall).        *)
(* Calls that leave the repository (file system, filter processes, the     *)
(* file watcher) are inputs: their result is chosen with \E.               *)
(***************************************************************************)
EXTENDS Integers, Sequences, FiniteSets, TLC

VARIABLES
    mode,       \* the function that was called: "recycled" (RecycledRunProfile),
                \* "run" (RunProfile), "watch" (WatchProfileImpl on its own, as a
                \* nested profile calls it), "subfilter", "install"
    pc,         \* position of the running function
    profileOk,  \* whether context.GetProfile() finds the profile (the context and
                \* its config do not change during a run)
    profile,    \* profile.Filters: sequence of [disabled : BOOLEAN]
    cycle,      \* number of times the label start: was reached
    idx,        \* WatchProfileImpl: index of the next filter of the range loop
    ran,        \* WatchProfileImpl: <<index, outcome>> of every filter.Run call of this call
    cache,      \* the persisted fingerprint store: roots that have a saved state
    log,        \* every call made by the running function, in order, with its result
    manifest,   \* subfilterCollection: the filter.json of the remote filter
    parentId,   \* subfilterCollection: f.Id
    subResult,  \* subfilterCollection: the returned (collection, error)
    fsPaths,    \* installer: paths that exist under the working directory
    fetches,    \* installer: every getter.Get call, in order: [dst, src, ok]
    installs,   \* installer: every InstallDependency call, in order
    project,    \* installer: project.Profiles, each the sequence of its filter entries
    dependencies, \* installer: the result of GatherDependencies()
    srcState,   \* sync: what each configured source path is
    tmpDirs     \* sync: the state of tmp/RP, tmp/BP, tmp/data

vars == <<mode, pc, profileOk, profile, cycle, idx, ran, cache, log,
          manifest, parentId, subResult, fsPaths, fetches, installs,
          project, dependencies, srcState, tmpDirs>>

subVars == <<manifest, parentId, subResult>>
instVars == <<fsPaths, fetches, installs>>
gatherVars == <<project, dependencies>>
syncVars == <<srcState, tmpDirs>>

\* ------------------------------------------------------------------ bounds
MaxFilters == 2     \* longest profile
MaxCycles == 3      \* interruptions are accepted while cycle < MaxCycles
MaxEntries == 3     \* longest "filters" array of a filter.json
MaxInstalls == 3    \* number of InstallDependency calls made in one run
MaxProfiles == 2    \* most profiles of a project
MaxProfileFilters == 1  \* most filter entries of one profile of a project

\* ------------------------------------------------------------------ helpers
Roots == {"RP", "BP", "data"}

SeqsUpTo(S, n) == UNION {[1..k -> S] : k \in 0..n}

Ev(op, arg, res) == [op |-> op, arg |-> arg, res |-> res]

ErrStr(ok) == IF ok THEN "nil" ELSE "err"
BoolStr(b) == IF b THEN "true" ELSE "false"

\* The interruption results the environment may still produce.
IntrChoices == IF cycle < MaxCycles THEN BOOLEAN ELSE {FALSE}

\* ClearCachedStates(): discards the persisted state of every root; when it
\* fails, any part of the store may be left.
ClearCachedStates(c) ==
    {[ok |-> TRUE, cache |-> {}]} \cup {[ok |-> FALSE, cache |-> s] : s \in SUBSET c}

\* SaveStateInDefaultCache(root): persists the state of one root.
SaveStateInDefaultCache(c, root) ==
    {[ok |-> TRUE, cache |-> c \cup {root}], [ok |-> FALSE, cache |-> c]}

\* "Just to be safe clear cached states": the store and the logged call after
\* a ClearCachedStates() on an error path.
ClearPath(c) ==
    {[cache |-> clr.cache, evs |-> <<Ev("ClearCachedStates", "", ErrStr(clr.ok))>>,
      replaced |-> ~clr.ok] :
        clr \in ClearCachedStates(c)}

\* An error path that returns without touching the store.
NoClearPath(c) == {[cache |-> c, evs |-> <<>>, replaced |-> FALSE]}

\* The call whose error the returned error wraps, after an error path e taken
\* for a failed step: "if err1 != nil { err = WrapError(err1, ...) }" puts the
\* error of ClearCachedStates in the place of the step's error.
WrappedCause(e, step) == IF e.replaced THEN "ClearCachedStates" ELSE step

\* ------------------------------------------------------------------ Init
IdleSub ==
    /\ manifest = [file |-> "ok", filters |-> <<>>]
    /\ parentId = ""
    /\ subResult = [collection |-> [nil |-> TRUE, Filters |-> <<>>],
                    err |-> [tag |-> "nil", at |-> -1]]
IdleGather == /\ project = <<>> /\ dependencies = <<>>
IdleInstall == /\ fsPaths = {} /\ fetches = <<>> /\ installs = <<>> /\ IdleGather
IdleSync == /\ srcState = <<>> /\ tmpDirs = <<>>

\* A run loop or WatchProfileImpl is called with any profile and any persisted
\* store left by earlier runs.
Init ==
    /\ mode \in {"recycled", "run", "watch"}
    /\ pc = CASE mode = "recycled" -> "start"
              [] mode = "run" -> "entry"
              [] OTHER -> "watch"
    /\ profileOk \in BOOLEAN
    /\ profile \in SeqsUpTo([disabled : BOOLEAN], MaxFilters)
    /\ cycle = 0
    /\ idx = 0
    /\ ran = <<>>
    /\ cache \in SUBSET Roots
    /\ log = <<>>
    /\ IdleSub
    /\ IdleInstall
    /\ IdleSync

\* ------------------------------------------------------------------ WatchProfileImpl
\* line 293: profile, err := context.GetProfile()
WatchGetProfile ==
    /\ pc = "watch"
    /\ idx' = 1
    /\ ran' = <<>>
    /\ IF profileOk
         THEN /\ pc' = "filter"
              /\ log' = Append(log, Ev("GetProfile", "watch", "nil"))
         ELSE /\ pc' = "watched"
              /\ log' = log \o <<Ev("GetProfile", "watch", "err"),
                                 Ev("WatchProfileImpl", "GetProfile", "err")>>
    /\ UNCHANGED <<mode, profileOk, profile, cycle, cache, subVars, instVars, gatherVars, syncVars>>

\* SkipFilter with the disabled flag not consulted.
SkipFilter_never(i) == FALSE

\* line 301: if filter.IsDisabled() { continue }
SkipFilter(i) == profile[i].disabled

\* lines 311-323: what WatchProfileImpl does with the result of filter.Run
AfterRun(out) == IF out = "ok" THEN "continue" ELSE "return"

\* The results filter.Run may produce.
RunOutcomes == {"ok", "err"} \cup (IF cycle < MaxCycles THEN {"interrupted"} ELSE {})

\* WatchRunErrorPath without the call of ClearCachedStates.
WatchRunErrorPath_noClear(c) == NoClearPath(c)

\* lines 313-317: the error path of filter.Run
WatchRunErrorPath(c) == ClearPath(c)

\* lines 298-324: one iteration of the range loop
WatchFilter ==
    /\ pc = "filter"
    /\ idx <= Len(profile)
    /\ IF SkipFilter(idx)
         THEN /\ idx' = idx + 1
              /\ UNCHANGED <<pc, ran, cache, log>>
         ELSE \E out \in RunOutcomes :
                /\ ran' = Append(ran, <<idx, out>>)
                /\ IF out = "err"
                     THEN \E e \in WatchRunErrorPath(cache) :
                            /\ cache' = e.cache
                            /\ log' = log \o <<Ev("Run", "", out)>> \o e.evs
                                           \o <<Ev("WatchProfileImpl", WrappedCause(e, "Run"), "err")>>
                            /\ pc' = "watched"
                            /\ idx' = idx
                     ELSE /\ cache' = cache
                          /\ IF AfterRun(out) = "return"
                               THEN /\ log' = log \o <<Ev("Run", "", out),
                                                       Ev("WatchProfileImpl", "", "true")>>
                                    /\ pc' = "watched"
                                    /\ idx' = idx
                               ELSE /\ log' = Append(log, Ev("Run", "", out))
                                    /\ pc' = pc
                                    /\ idx' = idx + 1
    /\ UNCHANGED <<mode, profileOk, profile, cycle, subVars, instVars, gatherVars, syncVars>>

\* line 325: return false, nil
WatchLoopEnd ==
    /\ pc = "filter"
    /\ idx > Len(profile)
    /\ pc' = "watched"
    /\ log' = Append(log, Ev("WatchProfileImpl", "", "false"))
    /\ UNCHANGED <<mode, profileOk, profile, cycle, idx, ran, cache, subVars, instVars, gatherVars, syncVars>>

\* The value WatchProfileImpl returned (the last event of the log at "watched").
WatchResult == log[Len(log)].res

\* ------------------------------------------------------------------ RecycledRunProfile
\* SaveStateInDefaultCache(path) on the store c, with the given result.
SaveState(c, root, ok) ==
    CHOOSE o \in SaveStateInDefaultCache(c, root) : o.ok = ok

\* SaveTmpRoots with the data subtree forgotten.
SaveTmpRoots_noData == <<"RP", "BP">>

\* lines 179-181: the subtrees saveTmp saves, in order
SaveTmpRoots == <<"RP", "BP", "data">>

RECURSIVE SaveEach(_, _, _, _)
SaveEach(c, roots, oks, i) ==
    IF i > Len(roots) THEN c
    ELSE SaveEach(SaveState(c, roots[i], oks[i]).cache, roots, oks, i + 1)

\* line 182: firstErr(err1, err2, err3) != nil
AnySaveFailed(oks) == \E i \in DOMAIN oks : ~oks[i]

\* lines 183-187: the error path of saveTmp
SaveTmpErrorPath(c) == ClearPath(c)

\* lines 178-190 with the callers' lines 209-212, 220-223, 238-241
SaveTmp ==
    /\ pc = "saveTmp"
    /\ \E oks \in [1..Len(SaveTmpRoots) -> BOOLEAN] :
         LET saved == SaveEach(cache, SaveTmpRoots, oks, 1)
             evs == [i \in 1..Len(SaveTmpRoots) |->
                        Ev("SaveStateInDefaultCache", SaveTmpRoots[i], ErrStr(oks[i]))]
         IN IF AnySaveFailed(oks)
              THEN \E e \in SaveTmpErrorPath(saved) :
                     /\ cache' = e.cache
                     /\ log' = log \o evs \o e.evs
                                     \o <<Ev("return", WrappedCause(e, "SaveStateInDefaultCache"), "err")>>
                     /\ pc' = "failed"
              ELSE /\ cache' = saved
                   /\ log' = log \o evs
                   /\ pc' = "start"
    /\ UNCHANGED <<mode, profileOk, profile, cycle, idx, ran, subVars, instVars, gatherVars, syncVars>>

\* lines 194-199: start: profile, err := context.GetProfile()
RecGetProfile ==
    /\ mode = "recycled"
    /\ pc = "start"
    /\ cycle' = cycle + 1
    /\ IF profileOk
         THEN /\ pc' = "sync"
              /\ log' = Append(log, Ev("GetProfile", "loop", "nil"))
         ELSE /\ pc' = "failed"
              /\ log' = log \o <<Ev("GetProfile", "loop", "err"), Ev("return", "GetProfile", "err")>>
    /\ UNCHANGED <<mode, profileOk, profile, idx, ran, cache, subVars, instVars, gatherVars, syncVars>>

\* lines 202-205: the error path of RecycledSetupTmpFiles
RecSyncErrorPath(c) == ClearPath(c)

\* lines 200-207: RecycledSetupTmpFiles and its error path
RecSync ==
    /\ mode = "recycled"
    /\ pc = "sync"
    /\ \E ok \in BOOLEAN :
         IF ok
           THEN /\ pc' = "poll"
                /\ log' = Append(log, Ev("RecycledSetupTmpFiles", "", "nil"))
                /\ cache' = cache
           ELSE \E e \in RecSyncErrorPath(cache) :
                  /\ cache' = e.cache
                  /\ log' = log \o <<Ev("RecycledSetupTmpFiles", "", "err")>> \o e.evs
                                 \o <<Ev("return", WrappedCause(e, "RecycledSetupTmpFiles"), "err")>>
                  /\ pc' = "failed"
    /\ UNCHANGED <<mode, profileOk, profile, cycle, idx, ran, subVars, instVars, gatherVars, syncVars>>

\* RecPoll going back to the label start without saveTmp.
RecPoll_noSave ==
    /\ mode = "recycled"
    /\ pc = "poll"
    /\ \E intr \in IntrChoices :
         /\ log' = Append(log, Ev("IsInterrupted", "", BoolStr(intr)))
         /\ pc' = IF intr THEN "start" ELSE "watch"
    /\ UNCHANGED <<mode, profileOk, profile, cycle, idx, ran, cache, subVars, instVars, gatherVars, syncVars>>

\* lines 208-213: if context.IsInterrupted() { saveTmp; goto start }
RecPoll ==
    /\ mode = "recycled"
    /\ pc = "poll"
    /\ \E intr \in IntrChoices :
         /\ log' = Append(log, Ev("IsInterrupted", "", BoolStr(intr)))
         /\ pc' = IF intr THEN "saveTmp" ELSE "watch"
    /\ UNCHANGED <<mode, profileOk, profile, cycle, idx, ran, cache, subVars, instVars, gatherVars, syncVars>>

\* RecAfterWatch with the interrupted result not looked at.
RecAfterWatch_exportsInterrupted ==
    /\ mode = "recycled"
    /\ pc = "watched"
    /\ CASE WatchResult = "err" ->
              /\ pc' = "failed"
              /\ log' = Append(log, Ev("return", log[Len(log)].arg, "err"))
         [] OTHER ->
              /\ pc' = "export"
              /\ log' = log
    /\ UNCHANGED <<mode, profileOk, profile, cycle, idx, ran, cache, subVars, instVars, gatherVars, syncVars>>

\* lines 215-224: the result of WatchProfileImpl
RecAfterWatch ==
    /\ mode = "recycled"
    /\ pc = "watched"
    /\ CASE WatchResult = "err" ->
              /\ pc' = "failed"
              /\ log' = Append(log, Ev("return", log[Len(log)].arg, "err"))
         [] WatchResult = "true" ->
              /\ pc' = "saveTmp"
              /\ log' = log
         [] OTHER ->
              /\ pc' = "export"
              /\ log' = log
    /\ UNCHANGED <<mode, profileOk, profile, cycle, idx, ran, cache, subVars, instVars, gatherVars, syncVars>>

\* RecExportErrorPath without the call of ClearCachedStates.
RecExportErrorPath_noClear(c) == NoClearPath(c)

\* lines 231-234: the error path of RecycledExportProject
RecExportErrorPath(c) == ClearPath(c)

\* lines 226-236: RecycledExportProject and its error path
RecExport ==
    /\ mode = "recycled"
    /\ pc = "export"
    /\ \E ok \in BOOLEAN :
         IF ok
           THEN /\ pc' = "polldata"
                /\ log' = Append(log, Ev("RecycledExportProject", "", "nil"))
                /\ cache' = cache
           ELSE \E e \in RecExportErrorPath(cache) :
                  /\ cache' = e.cache
                  /\ log' = log \o <<Ev("RecycledExportProject", "", "err")>> \o e.evs
                                 \o <<Ev("return", WrappedCause(e, "RecycledExportProject"), "err")>>
                  /\ pc' = "failed"
    /\ UNCHANGED <<mode, profileOk, profile, cycle, idx, ran, subVars, instVars, gatherVars, syncVars>>

\* RecPollData returning whatever IsInterrupted("data") says.
RecPollData_returnsInterrupted ==
    /\ mode = "recycled"
    /\ pc = "polldata"
    /\ \E intr \in IntrChoices :
         /\ log' = log \o <<Ev("IsInterrupted", "data", BoolStr(intr)),
                             Ev("return", "", "nil")>>
         /\ pc' = "done"
    /\ UNCHANGED <<mode, profileOk, profile, cycle, idx, ran, cache, subVars, instVars, gatherVars, syncVars>>

\* lines 237-244: if context.IsInterrupted("data") { saveTmp; goto start }; return nil
RecPollData ==
    /\ mode = "recycled"
    /\ pc = "polldata"
    /\ \E intr \in IntrChoices :
         IF intr
           THEN /\ log' = Append(log, Ev("IsInterrupted", "data", "true"))
                /\ pc' = "saveTmp"
           ELSE /\ log' = log \o <<Ev("IsInterrupted", "data", "false"),
                                   Ev("return", "", "nil")>>
                /\ pc' = "done"
    /\ UNCHANGED <<mode, profileOk, profile, cycle, idx, ran, cache, subVars, instVars, gatherVars, syncVars>>

\* ------------------------------------------------------------------ RunProfile
\* line 253: ClearCachedStates(), its error ignored
RunClear ==
    /\ mode = "run"
    /\ pc = "entry"
    /\ \E clr \in ClearCachedStates(cache) :
         /\ cache' = clr.cache
         /\ log' = Append(log, Ev("ClearCachedStates", "", ErrStr(clr.ok)))
    /\ pc' = "start"
    /\ UNCHANGED <<mode, profileOk, profile, cycle, idx, ran, subVars, instVars, gatherVars, syncVars>>

\* lines 254-259: start: profile, err := context.GetProfile()
RunGetProfile ==
    /\ mode = "run"
    /\ pc = "start"
    /\ cycle' = cycle + 1
    /\ IF profileOk
         THEN /\ pc' = "sync"
              /\ log' = Append(log, Ev("GetProfile", "loop", "nil"))
         ELSE /\ pc' = "failed"
              /\ log' = log \o <<Ev("GetProfile", "loop", "err"), Ev("return", "GetProfile", "err")>>
    /\ UNCHANGED <<mode, profileOk, profile, idx, ran, cache, subVars, instVars, gatherVars, syncVars>>

\* RunSync trying again from the label start when SetupTmpFiles fails.
RunSync_retries ==
    /\ mode = "run"
    /\ pc = "sync"
    /\ \E ok \in BOOLEAN :
         IF ok
           THEN /\ pc' = "poll"
                /\ log' = Append(log, Ev("SetupTmpFiles", "", "nil"))
           ELSE /\ pc' = "start"
                /\ log' = Append(log, Ev("SetupTmpFiles", "", "err"))
    /\ UNCHANGED <<mode, profileOk, profile, cycle, idx, ran, cache, subVars, instVars, gatherVars, syncVars>>

\* lines 260-263: SetupTmpFiles
RunSync ==
    /\ mode = "run"
    /\ pc = "sync"
    /\ \E ok \in BOOLEAN :
         IF ok
           THEN /\ pc' = "poll"
                /\ log' = Append(log, Ev("SetupTmpFiles", "", "nil"))
           ELSE /\ pc' = "failed"
                /\ log' = log \o <<Ev("SetupTmpFiles", "", "err"), Ev("return", "SetupTmpFiles", "err")>>
    /\ UNCHANGED <<mode, profileOk, profile, cycle, idx, ran, cache, subVars, instVars, gatherVars, syncVars>>

\* RunPoll with the result of the poll ignored.
RunPoll_ignored ==
    /\ mode = "run"
    /\ pc = "poll"
    /\ \E intr \in IntrChoices :
         /\ log' = Append(log, Ev("IsInterrupted", "", BoolStr(intr)))
         /\ pc' = "watch"
    /\ UNCHANGED <<mode, profileOk, profile, cycle, idx, ran, cache, subVars, instVars, gatherVars, syncVars>>

\* lines 264-266: if context.IsInterrupted() { goto start }
RunPoll ==
    /\ mode = "run"
    /\ pc = "poll"
    /\ \E intr \in IntrChoices :
         /\ log' = Append(log, Ev("IsInterrupted", "", BoolStr(intr)))
         /\ pc' = IF intr THEN "start" ELSE "watch"
    /\ UNCHANGED <<mode, profileOk, profile, cycle, idx, ran, cache, subVars, instVars, gatherVars, syncVars>>

\* RunAfterWatch reading the signal once the filter list has completed.
RunAfterWatch_polls ==
    /\ mode = "run"
    /\ pc = "watched"
    /\ CASE WatchResult = "err" ->
              /\ pc' = "failed"
              /\ log' = Append(log, Ev("return", log[Len(log)].arg, "err"))
         [] WatchResult = "true" ->
              /\ pc' = "start"
              /\ log' = log
         [] OTHER ->
              \E intr \in IntrChoices :
                /\ pc' = IF intr THEN "start" ELSE "export"
                /\ log' = Append(log, Ev("IsInterrupted", "", BoolStr(intr)))
    /\ UNCHANGED <<mode, profileOk, profile, cycle, idx, ran, cache, subVars, instVars, gatherVars, syncVars>>

\* lines 268-274: the result of WatchProfileImpl
RunAfterWatch ==
    /\ mode = "run"
    /\ pc = "watched"
    /\ CASE WatchResult = "err" ->
              /\ pc' = "failed"
              /\ log' = Append(log, Ev("return", log[Len(log)].arg, "err"))
         [] WatchResult = "true" ->
              /\ pc' = "start"
              /\ log' = log
         [] OTHER ->
              /\ pc' = "export"
              /\ log' = log
    /\ UNCHANGED <<mode, profileOk, profile, cycle, idx, ran, cache, subVars, instVars, gatherVars, syncVars>>

\* lines 276-282: ExportProject
RunExport ==
    /\ mode = "run"
    /\ pc = "export"
    /\ \E ok \in BOOLEAN :
         IF ok
           THEN /\ pc' = "polldata"
                /\ log' = Append(log, Ev("ExportProject", "", "nil"))
           ELSE /\ pc' = "failed"
                /\ log' = log \o <<Ev("ExportProject", "", "err"), Ev("return", "ExportProject", "err")>>
    /\ UNCHANGED <<mode, profileOk, profile, cycle, idx, ran, cache, subVars, instVars, gatherVars, syncVars>>

\* RunPollData saving the state of the tmp files before it loops, as the
\* recycled loop does.
RunPollData_saves ==
    /\ mode = "run"
    /\ pc = "polldata"
    /\ \E intr \in IntrChoices :
         IF intr
           THEN /\ log' = Append(log, Ev("IsInterrupted", "data", "true"))
                /\ pc' = "saveTmp"
           ELSE /\ log' = log \o <<Ev("IsInterrupted", "data", "false"),
                                   Ev("return", "", "nil")>>
                /\ pc' = "done"
    /\ UNCHANGED <<mode, profileOk, profile, cycle, idx, ran, cache, subVars, instVars, gatherVars, syncVars>>

\* lines 283-287: if context.IsInterrupted("data") { goto start }; return nil
RunPollData ==
    /\ mode = "run"
    /\ pc = "polldata"
    /\ \E intr \in IntrChoices :
         IF intr
           THEN /\ log' = Append(log, Ev("IsInterrupted", "data", "true"))
                /\ pc' = "start"
           ELSE /\ log' = log \o <<Ev("IsInterrupted", "data", "false"),
                                   Ev("return", "", "nil")>>
                /\ pc' = "done"
    /\ UNCHANGED <<mode, profileOk, profile, cycle, idx, ran, cache, subVars, instVars, gatherVars, syncVars>>

NextRun ==
    \/ WatchGetProfile
    \/ WatchFilter
    \/ WatchLoopEnd
    \/ SaveTmp
    \/ RecGetProfile
    \/ RecSync
    \/ RecPoll
    \/ RecAfterWatch
    \/ RecExport
    \/ RecPollData
    \/ RunClear
    \/ RunGetProfile
    \/ RunSync
    \/ RunPoll
    \/ RunAfterWatch
    \/ RunExport
    \/ RunPollData

Spec == Init /\ [][NextRun]_vars

\* Each of the functions is one thread of control that goes on to its next
\* statement until it returns.
SpecLive == Init /\ [][NextRun]_vars /\ WF_vars(NextRun)

\* ------------------------------------------------------------------ reading the log
InLoop == mode \in {"recycled", "run"}

SyncOps == {"SetupTmpFiles", "RecycledSetupTmpFiles"}
ExportOps == {"ExportProject", "RecycledExportProject"}

IsLoopStart(e) == e.op = "GetProfile" /\ e.arg = "loop"

CountLog(Test(_)) == Cardinality({k \in 1..Len(log) : Test(log[k])})

\* What the loop saw of the interruption signal, in order: the results of
\* IsInterrupted() and IsInterrupted("data") and the interrupted result of
\* WatchProfileImpl.
IsObservation(e) == e.op \in {"IsInterrupted", "WatchProfileImpl"} /\ e.res \in {"true", "false"}
Observed == SelectSeq(log, IsObservation)

\* A sequence of observations without its trailing "none"s.
RECURSIVE StripNone(_)
StripNone(q) ==
    IF q = <<>> THEN q
    ELSE IF q[Len(q)].res = "false" THEN StripNone(SubSeq(q, 1, Len(q) - 1))
    ELSE q

NoStepFailed == \A k \in 1..Len(log) : log[k].res # "err"

IsSync(e) == e.op \in SyncOps
IsExport(e) == e.op \in ExportOps
IsCompletedRun(e) == e.op = "WatchProfileImpl" /\ e.res = "false"

SawInterruptInterruptNone ==
    LET o == StripNone(Observed)
    IN Len(o) = 2 /\ o[1].res = "true" /\ o[2].res = "true"

\* C1: in both run loops, when no step fails and the loop observes the
\* interruption sequence interrupt, interrupt, none (and none from then on),
\* the run ends with exactly three syncs, exactly one completed filter list
\* and exactly one export, and returns nil.
C1_InterruptionLoopShape ==
    (InLoop /\ pc \in {"done", "failed"} /\ NoStepFailed /\ SawInterruptInterruptNone)
        => /\ pc = "done"
           /\ log[Len(log)] = Ev("return", "", "nil")
           /\ CountLog(IsSync) = 3
           /\ CountLog(IsCompletedRun) = 1
           /\ CountLog(IsExport) = 1

C1_Witness ==
    /\ mode = "recycled"
    /\ pc = "done"
    /\ NoStepFailed
    /\ SawInterruptInterruptNone
    /\ CountLog(IsSync) = 3
    /\ Len(ran) = 1

\* ------------------------------------------------------------------ C2
WatchReturnedError == pc = "watched" /\ WatchResult = "err"

\* C2 as stated: whenever WatchProfileImpl returns an error, the persisted
\* hash cache is empty at that moment.
C2_AnyFailureLeavesCacheEmpty == WatchReturnedError => cache = {}

\* C2, amended: when WatchProfileImpl returns an error, either a filter's Run
\* failed and ClearCachedStates was called right after it, and then the
\* persisted cache is empty if that call succeeded; or the profile lookup
\* failed, and then no filter ran and ClearCachedStates was not called by
\* WatchProfileImpl.
C2_RunFailureClearsCache ==
    WatchReturnedError =>
        LET n == Len(log)
        IN \/ /\ n >= 3
              /\ log[n - 2] = Ev("Run", "", "err")
              /\ log[n - 1].op = "ClearCachedStates"
              /\ log[n - 1].res = "nil" => cache = {}
           \/ /\ n >= 2
              /\ log[n - 1] = Ev("GetProfile", "watch", "err")
              /\ ran = <<>>

C2_Witness ==
    /\ WatchReturnedError
    /\ Len(ran) = 2
    /\ ran[2][2] = "err"
    /\ log[Len(log) - 1] = Ev("ClearCachedStates", "", "nil")
    /\ \E k \in 1..Len(log) : log[k] = Ev("SaveStateInDefaultCache", "RP", "nil")
    /\ cache = {}

\* ------------------------------------------------------------------ C3
IsFailingStep(e) ==
    e.res = "err" /\ e.op \notin {"ClearCachedStates", "WatchProfileImpl", "return"}

\* The position in the log of the step whose error the loop returns.
FailIdx == CHOOSE k \in 1..Len(log) :
              IsFailingStep(log[k]) /\ \A j \in 1..(k - 1) : ~IsFailingStep(log[j])

ClearedAfter(k) == \E j \in (k + 1)..Len(log) : log[j].op = "ClearCachedStates"

\* C3 as stated: every return with an error is preceded by a call of
\* ClearCachedStates made after the failing step.
C3_EveryFailureCleared ==
    (InLoop /\ pc = "failed") => ClearedAfter(FailIdx)

\* C3, amended: RecycledRunProfile calls ClearCachedStates after a failed
\* sync, export or cache save, and both loops get that call from
\* WatchProfileImpl after a failed filter Run; RunProfile returns a sync or
\* export error with no clear after it (its one clear of its own is the
\* first call it makes), and a profile-loading error is returned with no
\* clear after it in either loop.
C3_FailureClearedWhereCoded ==
    (InLoop /\ pc = "failed") =>
        LET f == log[FailIdx]
        IN /\ log[Len(log)].op = "return" /\ log[Len(log)].res = "err"
           /\ f.op \in {"RecycledSetupTmpFiles", "RecycledExportProject",
                        "SaveStateInDefaultCache", "Run"} => ClearedAfter(FailIdx)
           /\ f.op \in {"SetupTmpFiles", "ExportProject"} =>
                 /\ ~ClearedAfter(FailIdx)
                 /\ log[1].op = "ClearCachedStates"
           /\ f.op = "GetProfile" => ~ClearedAfter(FailIdx)

C3_Witness ==
    /\ mode = "recycled"
    /\ pc = "failed"
    /\ cycle = 2
    /\ log[FailIdx].op = "RecycledExportProject"
    /\ ClearedAfter(FailIdx)

\* ------------------------------------------------------------------ C5
\* The indices of the profile's filters that are not disabled, in order.
EnabledIdx ==
    LET all == [i \in 1..Len(profile) |-> i]
        Enabled(i) == ~profile[i].disabled
    IN SelectSeq(all, Enabled)

\* C5: within one call of WatchProfileImpl the filters whose Run was called
\* are the non-disabled filters in declared order, cut right after the first
\* one that reports interrupted or returns an error.
C5_RunOrder ==
    (pc \in {"filter", "watched"} /\ profileOk) =>
        LET E == EnabledIdx
            n == Len(ran)
        IN /\ n <= Len(E)
           /\ \A k \in 1..n : ran[k][1] = E[k]
           /\ \A k \in 1..(n - 1) : ran[k][2] = "ok"
           /\ pc = "filter" => (\A k \in 1..n : ran[k][2] = "ok")
           /\ pc = "watched" =>
                 CASE WatchResult = "false" -> n = Len(E) /\ \A k \in 1..n : ran[k][2] = "ok"
                   [] WatchResult = "true" -> n > 0 /\ ran[n][2] = "interrupted"
                   [] OTHER -> n > 0 /\ ran[n][2] = "err"

C5_Witness ==
    /\ pc = "watched"
    /\ Len(profile) = 2
    /\ profile[1].disabled
    /\ ~profile[2].disabled
    /\ ran = << <<2, "ok">> >>
    /\ WatchResult = "false"

\* ------------------------------------------------------------------ C8
IsSave(e) == e.op = "SaveStateInDefaultCache"
IsInterruption(e) == IsObservation(e) /\ e.res = "true"

\* The log positions at which the loop came back to the label start.
LoopBacks == {k \in 2..Len(log) : IsLoopStart(log[k])}

\* C8: in recycled mode every loop-back follows an observed interruption and
\* a successful SaveStateInDefaultCache of each of tmp/RP, tmp/BP and
\* tmp/data; and when one of the three saves fails, ClearCachedStates is
\* called, an error is returned and the loop does not start again.
C8_SaveBeforeLoopBack ==
    mode = "recycled" =>
        /\ \A k \in LoopBacks :
              /\ k >= 5
              /\ IsInterruption(log[k - 4])
              /\ \A j \in (k - 3)..(k - 1) : IsSave(log[j]) /\ log[j].res = "nil"
              /\ {log[j].arg : j \in (k - 3)..(k - 1)} = Roots
        /\ \A k \in 1..Len(log) :
              (IsSave(log[k]) /\ log[k].res = "err") =>
                  /\ pc = "failed"
                  /\ Len(log) - k <= 4
                  /\ log[Len(log)].op = "return" /\ log[Len(log)].res = "err"
                  /\ log[Len(log) - 1].op = "ClearCachedStates"
                  /\ \A j \in k..Len(log) : ~IsLoopStart(log[j])
                  /\ Cardinality({j \in 1..Len(log) : IsSave(log[j])}) = 3 * cycle

C8_Witness ==
    /\ mode = "recycled"
    /\ pc = "failed"
    /\ LoopBacks # {}
    /\ log[Len(log) - 2] = Ev("SaveStateInDefaultCache", "data", "err")
    /\ log[Len(log) - 3] = Ev("SaveStateInDefaultCache", "BP", "nil")
    /\ log[Len(log) - 5] = Ev("IsInterrupted", "data", "true")

\* ------------------------------------------------------------------ C9
\* C9: RunProfile never calls SaveStateInDefaultCache; its first call is
\* ClearCachedStates, before the first cycle; every interruption is followed
\* by a restart at GetProfile and the full SetupTmpFiles; and when that first
\* clear succeeded the persisted cache is empty in every later state.
C9_NoPersistenceInRunProfile ==
    (mode = "run" /\ log # <<>>) =>
        /\ \A k \in 1..Len(log) : ~IsSave(log[k]) /\ log[k].op # "RecycledSetupTmpFiles"
        /\ log[1].op = "ClearCachedStates"
        /\ \A k \in 3..Len(log) : IsLoopStart(log[k]) => IsInterruption(log[k - 1])
        /\ \A k \in 1..Len(log) :
              IsInterruption(log[k]) =>
                  /\ k < Len(log) => IsLoopStart(log[k + 1])
                  /\ (k + 1 < Len(log) /\ log[k + 1].res = "nil") =>
                        log[k + 2].op = "SetupTmpFiles"
                  /\ k = Len(log) => pc \in {"start", "watched"}
        /\ log[1].res = "nil" => cache = {}

C9_Witness ==
    /\ mode = "run"
    /\ pc = "done"
    /\ cycle = 3
    /\ log[1] = Ev("ClearCachedStates", "", "nil")
    /\ \E k \in 1..Len(log) : log[k] = Ev("IsInterrupted", "data", "true")
    /\ \E k \in 1..Len(log) : log[k] = Ev("WatchProfileImpl", "", "true")

\* ------------------------------------------------------------------ C10
\* The position of the loop start of the cycle that log position k is in.
CycleStart(k) == CHOOSE s \in 1..k :
                    IsLoopStart(log[s]) /\ \A j \in (s + 1)..k : ~IsLoopStart(log[j])

\* C10: in both run loops an export is called only in a cycle whose sync
\* succeeded, whose poll after the sync was false and whose filter list
\* completed with interrupted = false and no error; and the loop returns nil
\* only right after a successful export and a false data-path poll.
C10_ExportOnlyAfterCompleteRun ==
    InLoop =>
        /\ \A k \in 1..Len(log) :
              IsExport(log[k]) =>
                  /\ \E s \in 1..k : IsLoopStart(log[s])
                  /\ LET s == CycleStart(k)
                     IN /\ log[s].res = "nil"
                        /\ k >= s + 5
                        /\ IsSync(log[s + 1]) /\ log[s + 1].res = "nil"
                        /\ log[s + 2] = Ev("IsInterrupted", "", "false")
                        /\ log[s + 3] = Ev("GetProfile", "watch", "nil")
                        /\ \A j \in (s + 4)..(k - 2) : log[j] = Ev("Run", "", "ok")
                        /\ log[k - 1] = Ev("WatchProfileImpl", "", "false")
        /\ pc = "done" =>
              /\ Len(log) >= 3
              /\ log[Len(log)] = Ev("return", "", "nil")
              /\ log[Len(log) - 1] = Ev("IsInterrupted", "data", "false")
              /\ IsExport(log[Len(log) - 2]) /\ log[Len(log) - 2].res = "nil"
        /\ (log # <<>> /\ log[Len(log)] = Ev("return", "", "nil")) => pc = "done"

C10_Witness ==
    /\ mode = "recycled"
    /\ pc = "done"
    /\ cycle = 2
    /\ Len(ran) = 2
    /\ \E k \in 1..Len(log) : log[k] = Ev("WatchProfileImpl", "", "true")

\* ------------------------------------------------------------------ C11
\* The calls that do the work of a cycle.
IsWork(e) == IsSync(e) \/ IsExport(e) \/ e.op = "Run" \/ IsLoopStart(e)

\* The log positions of the loop starts.
LoopStarts == {k \in 1..Len(log) : IsLoopStart(log[k])}

\* C11: in both run loops, once a step (profile load, sync, a filter's Run,
\* export, cache save) has returned an error, no sync, filter Run or export
\* and no new cycle follows in that invocation, whatever the interruption
\* signal is: the loop is at its error return; and every start of a cycle
\* but the first follows an observed interruption of the cycle before it.
C11_FailedIsAbsorbing ==
    InLoop =>
        /\ \A k \in 1..Len(log) :
              IsFailingStep(log[k]) =>
                  /\ \A j \in (k + 1)..Len(log) :
                        ~IsWork(log[j]) /\ log[j].op # "IsInterrupted"
                  /\ pc \in {"failed", "watched"}
                  /\ pc = "watched" => WatchResult = "err"
        /\ pc = "failed" => \E k \in 1..Len(log) : IsFailingStep(log[k])
        /\ \A k \in LoopStarts :
              (\E s \in LoopStarts : s < k) =>
                  \E j \in 1..(k - 1) :
                      /\ IsInterruption(log[j])
                      /\ \A i \in (j + 1)..(k - 1) : IsSave(log[i]) /\ log[i].res = "nil"

C11_Witness ==
    /\ mode = "run"
    /\ pc = "failed"
    /\ cycle = 2
    /\ log[FailIdx] = Ev("Run", "", "err")
    /\ log[Len(log) - 1].op = "WatchProfileImpl"

\* C17: when a filter's Run returns an error, ClearCachedStates is called
\* whatever else holds, and the error WatchProfileImpl and the run loop return
\* wraps that filter's error, also when ClearCachedStates fails.
C17_RunErrorSurfaced ==
    \A k \in 1..Len(log) :
        log[k] = Ev("Run", "", "err") =>
            /\ k + 2 <= Len(log)
            /\ log[k + 1].op = "ClearCachedStates"
            /\ log[k + 2] = Ev("WatchProfileImpl", "Run", "err")
            /\ pc = "failed" => log[Len(log)] = Ev("return", "Run", "err")

\* ------------------------------------------------------------------ C15
IsPoll(e) == e.op = "IsInterrupted"
Succeeded(e) == e.res = "nil"

\* C15 as stated: the run loops read the interruption signal only before
\* starting the sync of a cycle, after the filter list has completed and after
\* export, and never while filters run: a read directly follows the return of
\* WatchProfileImpl or the export, or it is the first thing of a cycle, and
\* every sync has a read before it in its cycle.
C15_PollsAtThreeBoundaries ==
    InLoop =>
        /\ \A k \in 1..Len(log) :
              IsPoll(log[k]) =>
                  \/ k = 1
                  \/ log[k - 1].op = "WatchProfileImpl"
                  \/ IsExport(log[k - 1])
                  \/ IsPoll(log[k - 1]) \/ IsSave(log[k - 1])
                  \/ log[k - 1].op = "ClearCachedStates"
        /\ \A k \in 1..Len(log) :
              IsSync(log[k]) => \E j \in CycleStart(k)..k : IsPoll(log[j])

\* C15 as amended: the run loops read the interruption signal at two places
\* of a cycle and nowhere else: IsInterrupted() right after the sync of the
\* cycle has succeeded, before the filter list starts, and
\* IsInterrupted("data") right after the export has succeeded. After the
\* filter list the loops act on the interrupted result of WatchProfileImpl and
\* read nothing; no read lies between the filters' runs.
C15_PollsAfterSyncAndExport ==
    InLoop =>
        /\ \A k \in 1..Len(log) :
              IsPoll(log[k]) =>
                  /\ k > 1
                  /\ \/ log[k].arg = "" /\ IsSync(log[k - 1]) /\ Succeeded(log[k - 1])
                     \/ log[k].arg = "data" /\ IsExport(log[k - 1]) /\ Succeeded(log[k - 1])
        /\ \A k \in 1..(Len(log) - 1) :
              /\ (IsSync(log[k]) /\ Succeeded(log[k])) =>
                    IsPoll(log[k + 1]) /\ log[k + 1].arg = ""
              /\ (IsExport(log[k]) /\ Succeeded(log[k])) =>
                    IsPoll(log[k + 1]) /\ log[k + 1].arg = "data"
              /\ log[k].op \in {"WatchProfileImpl", "Run"} => ~IsPoll(log[k + 1])
              /\ log[k] = Ev("GetProfile", "watch", "nil") => ~IsPoll(log[k + 1])

C15_Witness ==
    /\ mode = "run"
    /\ pc = "done"
    /\ cycle = 2
    /\ Len(ran) = 2
    /\ \E k \in 1..Len(log) : log[k] = Ev("IsInterrupted", "", "true")
    /\ CountLog(IsPoll) = 3

\* ------------------------------------------------------------------ C18
\* No step of the loop has returned an error (the result of the
\* ClearCachedStates call that opens RunProfile is not looked at).
EveryStepSucceeded == \A k \in 1..Len(log) : ~IsFailingStep(log[k])

LastObservation == Observed[Len(Observed)]

\* What holds of a loop at every moment: it has returned success only after an
\* export that followed a cycle in which nothing was seen of the signal, and
\* every interruption seen so far has been followed by, or is about to be
\* followed by, another sync.
LoopReturnsOnlyWhenQuiet ==
    /\ pc = "done" =>
          /\ EveryStepSucceeded
          /\ log[Len(log)] = Ev("return", "", "nil")
          /\ log[Len(log) - 1] = Ev("IsInterrupted", "data", "false")
          /\ IsExport(log[Len(log) - 2])
          /\ CountLog(IsSync) = CountLog(IsInterruption) + 1
    /\ (EveryStepSucceeded /\ Observed # <<>> /\ LastObservation.res = "true") =>
          /\ pc \notin {"done", "failed"}
          /\ CountLog(IsLoopStart) \in {CountLog(IsInterruption), CountLog(IsInterruption) + 1}
    /\ EveryStepSucceeded => pc # "failed"

\* C18: in both run loops, when every step succeeds and the interruption
\* signal is false from some point on, the loop eventually exports and returns
\* success; and as long as the signal is seen true the loop does not return
\* but syncs once more for every interruption.
C18_ReturnsWhenSignalSettles ==
    /\ [](InLoop => LoopReturnsOnlyWhenQuiet)
    /\ InLoop ~> (pc = "done" \/ ~EveryStepSucceeded)

C18_Witness ==
    /\ mode = "recycled"
    /\ pc = "done"
    /\ CountLog(IsSync) = MaxCycles
    /\ CountLog(IsInterruption) = MaxCycles - 1

\* ------------------------------------------------------------------ C19
\* The events a step has added to the log.
NewEvents == SubSeq(log', Len(log) + 1, Len(log'))

\* What holds of the recycled loop at every moment: a save is made only in
\* rounds of three after an interruption, and a run that has returned success
\* has made one round for every sync but the first.
SavesOnlyOnLoopBack ==
    /\ \A k \in 1..Len(log) :
          IsSave(log[k]) =>
              \E j \in 1..(k - 1) :
                  /\ IsInterruption(log[j])
                  /\ k - j <= 3
                  /\ \A i \in (j + 1)..k : IsSave(log[i])
    /\ pc = "done" =>
          /\ CountLog(IsSave) = 3 * (CountLog(IsSync) - 1)
          /\ \A k \in 1..Len(log) : log[k].op # "ClearCachedStates"
          /\ ~IsSave(log[Len(log) - 2])
          /\ CountLog(IsInterruption) = 0 => CountLog(IsSave) = 0

\* C19: in recycled mode the cache is persisted only on interruption
\* loop-backs, never on the way out: a successful run has made three saves for
\* every sync but the first, and the persisted cache changes only in a step
\* that calls SaveStateInDefaultCache or ClearCachedStates, so a run without
\* interruption leaves it as it was.
C19_PersistOnlyOnInterruption ==
    /\ [](mode = "recycled" => SavesOnlyOnLoopBack)
    /\ [][(mode = "recycled" /\ cache' # cache) =>
             \E k \in 1..Len(NewEvents) :
                 IsSave(NewEvents[k]) \/ NewEvents[k].op = "ClearCachedStates"]_vars

C19_Witness ==
    /\ mode = "recycled"
    /\ pc = "done"
    /\ CountLog(IsSync) = 3
    /\ CountLog(IsSave) = 6
    /\ cache = Roots

\* ================================================================== subfilterCollection
\* The filter.json of a remote filter: what reading and decoding the file
\* gives ("unreadable", "badjson", "nofilters", "notarray" or "ok") and, when
\* "ok", the entries of its "filters" array. An entry is described by what the
\* constructors make of it:
\*   "notobject"    the entry is not a JSON object
\*   "badinstaller" FilterInstallerFromObject returns an error
\*   "badrunner"    CreateFilterRunner returns an error
\*   "local", "profile", "remote"   the variant of the runner that is created
EntryKinds == {"notobject", "badinstaller", "badrunner", "local", "profile", "remote"}
FileStates == {"unreadable", "badjson", "nofilters", "notarray"}
ParentIds == {"P", "pkg"}

Manifests ==
    {[file |-> f, filters |-> <<>>] : f \in FileStates}
        \cup {[file |-> "ok", filters |-> q] : q \in SeqsUpTo([kind : EntryKinds], MaxEntries)}

NoError == [tag |-> "nil", at |-> -1]
NilCollection == [nil |-> TRUE, Filters |-> <<>>]

\* return nil, <error>
SubFail(tag, i) == [collection |-> NilCollection, err |-> [tag |-> tag, at |-> i]]

\* SubfilterId numbering the subfilters from one.
SubfilterId_fromOne(p, i) == p \o ":subfilter" \o ToString(i + 1)

\* line 371: filterId := fmt.Sprintf("%v:subfilter%v", f.Id, i)
SubfilterId(p, i) == p \o ":subfilter" \o ToString(i)

\* lines 372-382: the runner built from an entry that both constructors accept
CreateFilterRunner(filterId, entry) ==
    [id |-> filterId, variant |-> entry.kind, args |-> "own"]

\* IsRemoteFilter that takes no runner for a remote filter.
IsRemoteFilter_never(runner) == FALSE

\* line 389: _, ok := filterRunner.(*RemoteFilter)
IsRemoteFilter(runner) == runner.variant = "remote"

\* line 400: filterRunner.CopyArguments(f)
CopyArguments(runner) == [runner EXCEPT !.args = "parent"]

\* lines 362-403: the loop over the entries, from entry i (counted from 0)
RECURSIVE SubfilterLoop(_, _, _, _)
SubfilterLoop(p, entries, i, result) ==
    IF i >= Len(entries) THEN [collection |-> result, err |-> NoError]
    ELSE LET entry == entries[i + 1]
             filterId == SubfilterId(p, i)
         IN CASE entry.kind = "notobject" -> SubFail("jsonPathTypeError", i)
              [] entry.kind = "badinstaller" -> SubFail("jsonPathParseError", i)
              [] entry.kind = "badrunner" -> SubFail("createFilterRunnerError", i)
              [] OTHER ->
                   LET filterRunner == CreateFilterRunner(filterId, entry)
                   IN IF IsRemoteFilter(filterRunner)
                        THEN SubFail("nestedRemoteFilterError", i)
                        ELSE SubfilterLoop(p, entries, i + 1,
                                [result EXCEPT !.Filters =
                                    Append(@, CopyArguments(filterRunner))])

\* lines 330-404
subfilterCollection(p, m) ==
    CASE m.file = "unreadable" -> SubFail("readError", -1)
      [] m.file = "badjson" -> SubFail("jsonUnmarshalError", -1)
      [] m.file = "nofilters" -> SubFail("jsonPathMissingError", -1)
      [] m.file = "notarray" -> SubFail("jsonPathTypeError", -1)
      [] OTHER -> SubfilterLoop(p, m.filters, 0, [nil |-> FALSE, Filters |-> <<>>])

IdleRun ==
    /\ profileOk = TRUE /\ profile = <<>> /\ cycle = 0 /\ idx = 0 /\ ran = <<>>
    /\ cache = {} /\ log = <<>>

InitSub ==
    /\ mode = "subfilter"
    /\ pc = "call"
    /\ manifest \in Manifests
    /\ parentId \in ParentIds
    /\ subResult = [collection |-> NilCollection, err |-> NoError]
    /\ IdleRun
    /\ IdleInstall
    /\ IdleSync

\* f.subfilterCollection(dotRegolithPath) is called and returns.
SubfilterCollectionCall ==
    /\ mode = "subfilter"
    /\ pc = "call"
    /\ subResult' = subfilterCollection(parentId, manifest)
    /\ pc' = "returned"
    /\ UNCHANGED <<mode, profileOk, profile, cycle, idx, ran, cache, log,
                   manifest, parentId, instVars, gatherVars, syncVars>>

NextSub == SubfilterCollectionCall

SpecSub == InitSub /\ [][NextSub]_vars

SubReturned == mode = "subfilter" /\ pc = "returned"
Entries == manifest.filters
RemotePositions == {i \in 0..(Len(Entries) - 1) : Entries[i + 1].kind = "remote"}
Resolves(i) == Entries[i + 1].kind \in {"local", "profile", "remote"}

\* ------------------------------------------------------------------ C6
\* C6 as stated: a manifest with an entry, at any position, that resolves to
\* a RemoteFilter fails with the forbidden-nested-remote error and returns no
\* collection.
C6_RemoteEntryGivesNestedError ==
    (SubReturned /\ RemotePositions # {}) =>
        /\ subResult.err.tag = "nestedRemoteFilterError"
        /\ subResult.collection.nil

\* C6, amended: a manifest with such an entry always fails and returns no
\* collection, and no returned collection ever holds a RemoteFilter; the
\* error is the forbidden-nested-remote error, naming the first such
\* position, exactly when every entry before that position resolves;
\* otherwise it is the error of the first entry that does not resolve.
C6_RemoteEntryNeverAccepted ==
    SubReturned =>
        /\ \A k \in 1..Len(subResult.collection.Filters) :
              subResult.collection.Filters[k].variant # "remote"
        /\ RemotePositions # {} =>
              LET first == CHOOSE i \in RemotePositions : \A j \in RemotePositions : i <= j
                  broken == {j \in 0..(first - 1) : ~Resolves(j)}
              IN /\ subResult.collection.nil
                 /\ subResult.err.tag # "nil"
                 /\ broken = {} => subResult.err = [tag |-> "nestedRemoteFilterError", at |-> first]
                 /\ broken # {} =>
                       /\ subResult.err.tag \in {"jsonPathTypeError", "jsonPathParseError",
                                                 "createFilterRunnerError"}
                       /\ subResult.err.at \in broken
                       /\ \A j \in broken : subResult.err.at <= j

C6_Witness ==
    /\ SubReturned
    /\ Len(Entries) = 3
    /\ Entries[1].kind = "local"
    /\ Entries[2].kind = "profile"
    /\ Entries[3].kind = "remote"
    /\ subResult = SubFail("nestedRemoteFilterError", 2)

\* ------------------------------------------------------------------ C7
Digits == <<"0", "1", "2", "3", "4", "5", "6", "7", "8", "9">>

\* C7: when subfilterCollection succeeds on a manifest of N entries for the
\* parent id P, the collection has exactly N runners and the runner at
\* position i has the id "P:subfilter<i>", in manifest order; when it fails
\* the collection is nil.
C7_SubfilterIds ==
    SubReturned =>
        IF subResult.err.tag = "nil"
          THEN /\ manifest.file = "ok"
               /\ ~subResult.collection.nil
               /\ Len(subResult.collection.Filters) = Len(Entries)
               /\ \A i \in 0..(Len(Entries) - 1) :
                     /\ subResult.collection.Filters[i + 1].id
                            = parentId \o ":subfilter" \o Digits[i + 1]
                     /\ subResult.collection.Filters[i + 1].variant = Entries[i + 1].kind
          ELSE subResult.collection = NilCollection

C7_Witness ==
    /\ SubReturned
    /\ parentId = "P"
    /\ Len(Entries) = 3
    /\ subResult.err = NoError
    /\ subResult.collection.Filters[1].id = "P:subfilter0"
    /\ subResult.collection.Filters[3].id = "P:subfilter2"

\* ================================================================== remote_filters.go
\* A locator and a path are sequences of path segments ("a/b" is <<"a", "b">>),
\* so that prefixing a path is concatenation, as it is for the strings.
CacheRoot == <<".regolith", "cache">>

\* lines 12-14: return ".regolith/cache/" + url
UrlToPath(url) == CacheRoot \o url

\* lines 16-18: return "github.com/Bedrock-OSS/regolith-filters//" + name
FilterNameToUrl(name) == <<"github.com", "Bedrock-OSS", "regolith-filters", "">> \o name

\* The locators InstallDependency is called with: explicit URLs, one of them
\* a path prefix of another, and the expansion of a filter name.
Locators ==
    {<<"github.com", "user", "filters">>,
     <<"github.com", "user", "filters", "sub">>,
     <<"example.org", "f">>,
     FilterNameToUrl(<<"texture_list">>)}

\* The path and the directories above it.
WithParents(path) == {SubSeq(path, 1, k) : k \in 1..Len(path)}

\* The file a path names: the file system takes "a//b" for "a/b".
Clean(path) == SelectSeq(path, LAMBDA seg : seg # "")

\* What getter.Get(dst, src) creates when it creates its destination.
Fetched(dst) == WithParents(Clean(dst))

\* lines 20-27: os.Stat(UrlToPath(url)) succeeds
IsRemoteFilterCached(url) == Clean(UrlToPath(url)) \in fsPaths

InitInstall ==
    /\ mode = "install"
    /\ pc = "running"
    /\ fsPaths \in {{}, WithParents(CacheRoot)}
    /\ fetches = <<>>
    /\ installs = <<>>
    /\ IdleGather
    /\ IdleRun
    /\ IdleSub
    /\ IdleSync

\* InstallDependencyCall returning the error of getter.Get to its caller.
InstallDependencyCall_returnsError(url, next) ==
    /\ installs' = Append(installs, [url |-> url, cached |-> IsRemoteFilterCached(url)])
    /\ \E ok \in BOOLEAN :
         /\ fetches' = Append(fetches, [call |-> Len(installs) + 1, dst |-> UrlToPath(url),
                                         src |-> url, ok |-> ok])
         /\ fsPaths' \in IF ok THEN {fsPaths \cup Fetched(UrlToPath(url))}
                         ELSE {fsPaths, fsPaths \cup Fetched(UrlToPath(url))}
         /\ pc' = next

\* lines 74-84: the body of InstallDependency(url). getter.Get(UrlToPath(url), url)
\* is called; when it fails, log.Fatal ends the process, and the destination
\* may or may not have been created. The caller goes on at next.
InstallDependencyCall(url, next) ==
    /\ installs' = Append(installs, [url |-> url, cached |-> IsRemoteFilterCached(url)])
    /\ \E ok \in BOOLEAN :
         /\ fetches' = Append(fetches, [call |-> Len(installs) + 1, dst |-> UrlToPath(url),
                                         src |-> url, ok |-> ok])
         /\ IF ok
              THEN /\ fsPaths' = fsPaths \cup Fetched(UrlToPath(url))
                   /\ pc' = next
              ELSE /\ fsPaths' \in {fsPaths, fsPaths \cup Fetched(UrlToPath(url))}
                   /\ pc' = "fatal"

\* lines 73-85: InstallDependency(url), called on its own
InstallDependency(url) ==
    /\ mode = "install"
    /\ pc = "running"
    /\ Len(installs) < MaxInstalls
    /\ InstallDependencyCall(url, "running")
    /\ UNCHANGED <<mode, profileOk, profile, cycle, idx, ran, cache, log, subVars,
                   gatherVars, syncVars>>

NextInstall == \E url \in Locators : InstallDependency(url)

SpecInstall == InitInstall /\ [][NextInstall]_vars

\* ------------------------------------------------------------------ C4
\* The getter.Get calls made by the InstallDependency calls number k and k + 1.
FetchesOf(k) == {j \in 1..Len(fetches) : fetches[j].call \in {k, k + 1}}

\* C4: two calls of InstallDependency in succession for the same locator, both
\* of which return, perform the fetch exactly once: the second call finds the
\* cache path of the locator existing and does not fetch.
C4_SecondInstallSkipsFetch ==
    \A k \in 1..(Len(installs) - 1) :
        (installs[k].url = installs[k + 1].url /\ pc = "running") =>
            /\ installs[k + 1].cached
            /\ Cardinality(FetchesOf(k)) = 1

\* C20: a locator is reported as cached only if that exact locator was itself
\* installed: installing a locator L never makes a different locator L' report
\* as cached, also when L' is a path prefix of L.
C20_OnlyInstalledLocatorCached ==
    mode = "install" =>
        \A l \in Locators :
            IsRemoteFilterCached(l) => \E k \in 1..Len(installs) : installs[k].url = l

\* ================================================================== InstallDependencies
\* A filter entry of a profile: its "url" and its "filter" (<<>> is the empty string).
EntryUrls == {<<>>, <<"example.org", "f">>}
EntryNames == {<<>>, <<"texture_list">>}
FilterEntries == [Url : EntryUrls, Filter : EntryNames]
Projects == SeqsUpTo(SeqsUpTo(FilterEntries, MaxProfileFilters), MaxProfiles)

\* GatherEntry appending the name's locator before the URL.
GatherEntry_nameFirst(deps, filter) ==
    LET withName == IF filter.Filter # <<>>
                      THEN Append(deps, FilterNameToUrl(filter.Filter)) ELSE deps
    IN IF filter.Url # <<>> THEN Append(withName, filter.Url) ELSE withName

\* lines 41-47: the body of the inner loop
GatherEntry(deps, filter) ==
    LET withUrl == IF filter.Url # <<>> THEN Append(deps, filter.Url) ELSE deps
    IN IF filter.Filter # <<>>
         THEN Append(withUrl, FilterNameToUrl(filter.Filter)) ELSE withUrl

\* lines 40-48: for _, filter := range profile.Filters, from entry f
RECURSIVE GatherProfile(_, _, _)
GatherProfile(deps, filters, f) ==
    IF f > Len(filters) THEN deps
    ELSE GatherProfile(GatherEntry(deps, filters[f]), filters, f + 1)

\* lines 39-49: for _, profile := range project.Profiles, from profile p
RECURSIVE GatherProject(_, _, _)
GatherProject(deps, profiles, p) ==
    IF p > Len(profiles) THEN deps
    ELSE GatherProject(GatherProfile(deps, profiles[p], 1), profiles, p + 1)

\* lines 36-51
GatherDependencies(proj) == GatherProject(<<>>, proj, 1)

InitInstallAll ==
    /\ mode = "installAll"
    /\ pc = "entry"
    /\ fsPaths \in {{}, WithParents(CacheRoot)}
    /\ fetches = <<>>
    /\ installs = <<>>
    /\ project \in Projects
    /\ dependencies = <<>>
    /\ IdleRun
    /\ IdleSub
    /\ IdleSync

\* lines 54-62: os.MkdirAll(".regolith/cache") and GatherDependencies()
InstallDependenciesStart ==
    /\ mode = "installAll"
    /\ pc = "entry"
    /\ \E ok \in BOOLEAN :
         IF ok
           THEN /\ fsPaths' = fsPaths \cup WithParents(CacheRoot)
                /\ dependencies' = GatherDependencies(project)
                /\ pc' = "loop"
           ELSE /\ pc' = "fatal"
                /\ UNCHANGED <<fsPaths, dependencies>>
    /\ UNCHANGED <<mode, profileOk, profile, cycle, idx, ran, cache, log, subVars,
                   fetches, installs, project, syncVars>>

\* lines 63-68: one iteration of the loop over the dependencies
InstallDependenciesLoop ==
    /\ mode = "installAll"
    /\ pc = "loop"
    /\ Len(installs) < Len(dependencies)
    /\ InstallDependencyCall(dependencies[Len(installs) + 1], "loop")
    /\ UNCHANGED <<mode, profileOk, profile, cycle, idx, ran, cache, log, subVars,
                   gatherVars, syncVars>>

\* line 70: log.Println("Dependencies installed.")
InstallDependenciesDone ==
    /\ mode = "installAll"
    /\ pc = "loop"
    /\ Len(installs) = Len(dependencies)
    /\ pc' = "installed"
    /\ UNCHANGED <<mode, profileOk, profile, cycle, idx, ran, cache, log, subVars,
                   instVars, gatherVars, syncVars>>

NextInstallAll ==
    \/ InstallDependenciesStart
    \/ InstallDependenciesLoop
    \/ InstallDependenciesDone

SpecInstallAll == InitInstallAll /\ [][NextInstallAll]_vars

\* GatherDependencies has run in this call of InstallDependencies.
Gathered ==
    /\ mode = "installAll"
    /\ pc \in {"loop", "installed"} \/ (pc = "fatal" /\ fetches # <<>>)

\* C12: InstallDependencies installs the gathered locators in gathered order,
\* one fetch each; a failed fetch is the last fetch of the run (nothing after
\* it is fetched, it is not fetched again) and the run then never reaches the
\* "installed" point, which takes a successful fetch of every locator.
C12_FetchFailureIsFatal ==
    mode = "installAll" =>
        /\ Len(fetches) = Len(installs)
        /\ Len(installs) <= Len(dependencies)
        /\ \A k \in 1..Len(fetches) :
              /\ installs[k].url = dependencies[k]
              /\ fetches[k].src = dependencies[k]
              /\ fetches[k].dst = UrlToPath(dependencies[k])
              /\ ~fetches[k].ok => (k = Len(fetches) /\ pc = "fatal")
        /\ pc = "installed" =>
              /\ Len(fetches) = Len(dependencies)
              /\ \A k \in 1..Len(fetches) : fetches[k].ok

C12_Witness ==
    /\ mode = "installAll"
    /\ pc = "fatal"
    /\ Len(dependencies) = 4
    /\ Len(fetches) = 2
    /\ fetches[1].ok
    /\ ~fetches[2].ok

\* The non-empty fields of the project's filter entries: profile, entry, field.
Slots ==
    {s \in (1..Len(project)) \X (1..MaxProfileFilters + 1) \X {"url", "filter"} :
        /\ s[2] <= Len(project[s[1]])
        /\ IF s[3] = "url" THEN project[s[1]][s[2]].Url # <<>>
                           ELSE project[s[1]][s[2]].Filter # <<>>}
\* The locator a field stands for: the URL as it is, the name in the template
\* github.com/Bedrock-OSS/regolith-filters//<name>.
SlotLocator(s) ==
    IF s[3] = "url" THEN project[s[1]][s[2]].Url
    ELSE <<"github.com", "Bedrock-OSS", "regolith-filters", "">> \o project[s[1]][s[2]].Filter
\* Profile order, then entry order, then the URL before the name.
SlotBefore(s, t) ==
    \/ s[1] < t[1]
    \/ s[1] = t[1] /\ s[2] < t[2]
    \/ s[1] = t[1] /\ s[2] = t[2] /\ s[3] = "url" /\ t[3] = "filter"
SlotPosition(s) == 1 + Cardinality({t \in Slots : SlotBefore(t, s)})

\* C13: GatherDependencies emits one locator for every non-empty URL field and
\* one for every non-empty filter-name field, in profile and entry order with
\* the URL first, the URL verbatim and the name expanded by the template, and
\* nothing else: a locator referenced r times is emitted r times.
C13_GatherEmitsEveryReference ==
    Gathered =>
        /\ Len(dependencies) = Cardinality(Slots)
        /\ \A s \in Slots : dependencies[SlotPosition(s)] = SlotLocator(s)
        /\ \A l \in {SlotLocator(s) : s \in Slots} :
              Cardinality({k \in 1..Len(dependencies) : dependencies[k] = l})
                  = Cardinality({s \in Slots : SlotLocator(s) = l})

C13_Witness ==
    /\ Gathered
    /\ Len(project) = 2
    /\ project[1] = <<[Url |-> <<"example.org", "f">>, Filter |-> <<"texture_list">>]>>
    /\ project[2] = project[1]
    /\ dependencies = <<project[1][1].Url, FilterNameToUrl(<<"texture_list">>),
                        project[1][1].Url, FilterNameToUrl(<<"texture_list">>)>>

\* ================================================================== workspace sync
\* What a configured source path is: the empty string, or a path that os.Stat
\* finds missing, a directory, a file, or cannot inspect.
SrcStates == {"empty", "missing", "dir", "file", "staterr"}
\* A subdirectory of tmp: absent, an empty directory, or a directory with content.
DirStates == {"absent", "empty", "copied"}

\* lines 131-145 and 25-70: RP, then BP, then data
NextRoot(r) == CASE r = "RP" -> "BP" [] r = "BP" -> "data" [] r = "data" -> "after"

\* setup_tmp_directory taking a file for a missing path.
setup_tmp_directory_fileAsMissing(src, r) ==
    CASE src \in {"empty", "missing", "file"} ->
            {[res |-> "nil", dir |-> "empty",
              evs |-> <<Ev("Stat", r, src), Ev("MkdirAll", r, "nil")>>],
             [res |-> "osMkdirError", dir |-> "absent",
              evs |-> <<Ev("Stat", r, src), Ev("MkdirAll", r, "err")>>]}
      [] src = "staterr" ->
            {[res |-> "nil", dir |-> "absent", evs |-> <<Ev("Stat", r, src)>>]}
      [] src = "dir" ->
            {[res |-> "nil", dir |-> "copied",
              evs |-> <<Ev("Stat", r, src), Ev("Copy", r, "nil")>>]}
            \cup {[res |-> "osCopyError", dir |-> d,
                   evs |-> <<Ev("Stat", r, src), Ev("Copy", r, "err")>>] :
                        d \in {"absent", "copied"}}

\* lines 96-129: the closure setup_tmp_directory on a source path in state src
\* and the absent directory tmp/r: its result, the directory it leaves, its calls.
setup_tmp_directory(src, r) ==
    CASE src = "empty" ->                                   \* lines 122-127
            {[res |-> "nil", dir |-> "empty", evs |-> <<Ev("MkdirAll", r, "nil")>>],
             [res |-> "osMkdirError", dir |-> "absent",
              evs |-> <<Ev("MkdirAll", r, "err")>>]}
      [] src = "missing" ->                                 \* lines 103-109
            {[res |-> "nil", dir |-> "empty",
              evs |-> <<Ev("Stat", r, src), Ev("MkdirAll", r, "nil")>>],
             [res |-> "osMkdirError", dir |-> "absent",
              evs |-> <<Ev("Stat", r, src), Ev("MkdirAll", r, "err")>>]}
      [] src = "staterr" ->                                 \* lines 102-110, 128
            {[res |-> "nil", dir |-> "absent", evs |-> <<Ev("Stat", r, src)>>]}
      [] src = "dir" ->                                     \* lines 111-118
            {[res |-> "nil", dir |-> "copied",
              evs |-> <<Ev("Stat", r, src), Ev("Copy", r, "nil")>>]}
            \cup {[res |-> "osCopyError", dir |-> d,
                   evs |-> <<Ev("Stat", r, src), Ev("Copy", r, "err")>>] :
                        d \in {"absent", "copied"}}
      [] src = "file" ->                                    \* lines 119-121
            {[res |-> "isDirNotADirError", dir |-> "absent",
              evs |-> <<Ev("Stat", r, src)>>]}

\* FullRecycledMoveOrCopy(source, tmp/r, ...) on the directory tmp/r in state dir:
\* it brings the target up to date, or fails and leaves the target in any state.
FullRecycledMoveOrCopy(dir) ==
    {[res |-> "nil", dir |-> "copied"]}
    \cup {[res |-> "err", dir |-> d] : d \in {dir, "copied"}}

InitSync ==
    /\ mode \in {"fullsync", "recycledsync"}
    /\ pc = "entry"
    /\ srcState \in [Roots -> SrcStates]
    /\ tmpDirs \in [Roots -> {"absent", "copied"}]
    /\ IdleRun
    /\ IdleSub
    /\ IdleInstall

\* lines 80-90: os.RemoveAll(tmp), then os.MkdirAll(tmp)
SetupTmpFilesStart ==
    /\ mode = "fullsync"
    /\ pc = "entry"
    /\ \/ \E left \in [Roots -> DirStates] :
            /\ \A r \in Roots : left[r] \in {tmpDirs[r], "absent"}
            /\ tmpDirs' = left
            /\ log' = log \o <<Ev("RemoveAll", "tmp", "err"), Ev("return", "tmp", "osRemoveError")>>
            /\ pc' = "syncfailed"
       \/ /\ tmpDirs' = [r \in Roots |-> "absent"]
          /\ \E ok \in BOOLEAN :
               /\ log' = log \o <<Ev("RemoveAll", "tmp", "nil"), Ev("MkdirAll", "tmp", ErrStr(ok))>>
                              \o (IF ok THEN <<>> ELSE <<Ev("return", "tmp", "osMkdirError")>>)
               /\ pc' = IF ok THEN "RP" ELSE "syncfailed"
    /\ UNCHANGED <<mode, profileOk, profile, cycle, idx, ran, cache, subVars, instVars,
                   gatherVars, srcState>>

\* lines 131-145: one call of the closure and the test of its result
SetupTmpFilesRoot ==
    /\ mode = "fullsync"
    /\ pc \in Roots
    /\ \E out \in setup_tmp_directory(srcState[pc], pc) :
         /\ tmpDirs' = [tmpDirs EXCEPT ![pc] = out.dir]
         /\ log' = log \o out.evs
                       \o (IF out.res = "nil" THEN <<>> ELSE <<Ev("return", pc, out.res)>>)
         /\ pc' = IF out.res = "nil" THEN NextRoot(pc) ELSE "syncfailed"
    /\ UNCHANGED <<mode, profileOk, profile, cycle, idx, ran, cache, subVars, instVars,
                   gatherVars, srcState>>

\* lines 147-148
SetupTmpFilesDone ==
    /\ mode = "fullsync"
    /\ pc = "after"
    /\ log' = Append(log, Ev("return", "", "nil"))
    /\ pc' = "synced"
    /\ UNCHANGED <<mode, profileOk, profile, cycle, idx, ran, cache, subVars, instVars,
                   gatherVars, syncVars>>

\* lines 19-23: os.MkdirAll(tmp)
RecycledSetupTmpFilesStart ==
    /\ mode = "recycledsync"
    /\ pc = "entry"
    /\ \E ok \in BOOLEAN :
         /\ log' = log \o <<Ev("MkdirAll", "tmp", ErrStr(ok))>>
                       \o (IF ok THEN <<>> ELSE <<Ev("return", "tmp", "osMkdirError")>>)
         /\ pc' = IF ok THEN "RP" ELSE "syncfailed"
    /\ UNCHANGED <<mode, profileOk, profile, cycle, idx, ran, cache, subVars, instVars,
                   gatherVars, syncVars>>

\* lines 25-40, 41-55, 56-70: one of the three blocks; an empty path is passed over
RecycledSetupTmpFilesRoot ==
    /\ mode = "recycledsync"
    /\ pc \in Roots
    /\ IF srcState[pc] = "empty"
         THEN /\ pc' = NextRoot(pc)
              /\ UNCHANGED <<tmpDirs, log>>
         ELSE \E out \in FullRecycledMoveOrCopy(tmpDirs[pc]) :
                /\ tmpDirs' = [tmpDirs EXCEPT ![pc] = out.dir]
                /\ log' = log \o <<Ev("FullRecycledMoveOrCopy", pc, out.res)>>
                              \o (IF out.res = "nil" THEN <<>> ELSE <<Ev("return", pc, "err")>>)
                /\ pc' = IF out.res = "nil" THEN NextRoot(pc) ELSE "syncfailed"
    /\ UNCHANGED <<mode, profileOk, profile, cycle, idx, ran, cache, subVars, instVars,
                   gatherVars, srcState>>

\* lines 72-73
RecycledSetupTmpFilesDone ==
    /\ mode = "recycledsync"
    /\ pc = "after"
    /\ log' = Append(log, Ev("return", "", "nil"))
    /\ pc' = "synced"
    /\ UNCHANGED <<mode, profileOk, profile, cycle, idx, ran, cache, subVars, instVars,
                   gatherVars, syncVars>>

NextSync ==
    \/ SetupTmpFilesStart
    \/ SetupTmpFilesRoot
    \/ SetupTmpFilesDone
    \/ RecycledSetupTmpFilesStart
    \/ RecycledSetupTmpFilesRoot
    \/ RecycledSetupTmpFilesDone

SpecSync == InitSync /\ [][NextSync]_vars

\* The closure has been called for root r.
Processed(r) == \E k \in 1..Len(log) : log[k].arg = r /\ log[k].op \in {"Stat", "MkdirAll"}
\* The sync returned the error kind from the step of root r.
SyncFailedAt(r, kind) ==
    /\ pc = "syncfailed"
    /\ log[Len(log)] = Ev("return", r, kind)
MkdirFailed(r) == \E k \in 1..Len(log) : log[k] = Ev("MkdirAll", r, "err")
LaterRoots(r) == CASE r = "RP" -> {"BP", "data"} [] r = "BP" -> {"data"} [] r = "data" -> {}

\* C14 (second half, as stated and as amended): a source path that is a file
\* makes SetupTmpFiles fail with the not-a-directory error, and the source
\* paths after it are not processed.
FileFailsSync(r) ==
    (srcState[r] = "file" /\ Processed(r)) =>
        /\ SyncFailedAt(r, "isDirNotADirError")
        /\ tmpDirs[r] = "absent"
        /\ \A q \in LaterRoots(r) : ~Processed(q) /\ tmpDirs[q] = "absent"

\* C14 as stated: in SetupTmpFiles a source path that does not exist never
\* makes the sync fail and gets an empty target subdirectory; a source path
\* that is a file fails the sync with the not-a-directory error and stops it.
C14_MissingNeverFails ==
    mode = "fullsync" =>
        \A r \in Roots :
            /\ (srcState[r] = "missing" /\ Processed(r)) =>
                    /\ ~(pc = "syncfailed" /\ log[Len(log)].arg = r)
                    /\ tmpDirs[r] = "empty"
            /\ FileFailsSync(r)

\* C14 as amended: a source path that does not exist does not fail the sync
\* and gets an empty target subdirectory unless os.MkdirAll of that
\* subdirectory fails, in which case the sync fails with the mkdir error; a
\* source path that is a file fails the sync with the not-a-directory error
\* and the source paths after it are not processed.
C14_MissingFailsOnlyOnMkdir ==
    mode = "fullsync" =>
        \A r \in Roots :
            /\ (srcState[r] = "missing" /\ Processed(r)) =>
                    IF MkdirFailed(r)
                      THEN SyncFailedAt(r, "osMkdirError") /\ tmpDirs[r] = "absent"
                      ELSE /\ ~(pc = "syncfailed" /\ log[Len(log)].arg = r)
                           /\ tmpDirs[r] = "empty"
            /\ FileFailsSync(r)

C14_Witness ==
    /\ mode = "fullsync"
    /\ srcState = [r \in Roots |-> IF r = "RP" THEN "missing" ELSE "file"]
    /\ tmpDirs["RP"] = "empty"
    /\ SyncFailedAt("BP", "isDirNotADirError")

\* C16: whenever SetupTmpFiles or RecycledSetupTmpFiles returns without error,
\* tmp contains the three subdirectories RP, BP and data.
C16_SyncedHasAllRoots ==
    pc = "synced" => \A r \in Roots : tmpDirs[r] # "absent"
====
